---- MODULE Spec2Model ----
(***************************************************************************)
(* generate_project.py: discovery of the Swift sources under DuEasy/, the  *)
(* derivation of two identifiers per file, the assembly of project.pbxproj *)
(* and its write to disk.                                                  *)
(*                                                                         *)
(* Strings are sequences of code points, so that substring tests, suffix   *)
(* tests, path arithmetic, sorting and hashing are computed as Python      *)
(* computes them.  The manifest is a sequence of line records: one record  *)
(* per line of the text that carries an identifier, plus the Begin/End     *)
(* markers of the sections.  The lines of the text that carry no           *)
(* identifier (build settings, names, masks) are constant and left out.    *)
(***************************************************************************)
EXTENDS Integers, Sequences, FiniteSets, TLC

\* ---------------------------------------------------------------- bounds
\* the largest number of files a modelled tree holds
MaxFiles == 3

\* ------------------------------------------------------- string literals
\* "/Users/bart/Documents/DuEasy"
BaseDir == <<47, 85, 115, 101, 114, 115, 47, 98, 97, 114, 116, 47, 68, 111, 99, 117, 109, 101, 110, 116, 115, 47, 68, 117, 69, 97, 115, 121>>
\* "DuEasy"
SourceDirName == <<68, 117, 69, 97, 115, 121>>
\* "Preview Content"
ExcludedName == <<80, 114, 101, 118, 105, 101, 119, 32, 67, 111, 110, 116, 101, 110, 116>>
\* ".swift"
SwiftExt == <<46, 115, 119, 105, 102, 116>>
\* "fileref_"
FileRefPrefix == <<102, 105, 108, 101, 114, 101, 102, 95>>
\* "buildfile_"
BuildFilePrefix == <<98, 117, 105, 108, 100, 102, 105, 108, 101, 95>>
\* ".."
ParDir == <<46, 46>>
\* "."
CurDir == <<46>>
\* os.sep
Sep == 47

\* the fixed identifiers of the project structure
\* "E1000012282F0012"
project_id == <<69, 49, 48, 48, 48, 48, 49, 50, 50, 56, 50, 70, 48, 48, 49, 50>>
\* "E100000A282F000A"
main_group_id == <<69, 49, 48, 48, 48, 48, 48, 65, 50, 56, 50, 70, 48, 48, 48, 65>>
\* "E100000C282F000C"
products_group_id == <<69, 49, 48, 48, 48, 48, 48, 67, 50, 56, 50, 70, 48, 48, 48, 67>>
\* "E100000B282F000B"
dueasy_group_id == <<69, 49, 48, 48, 48, 48, 48, 66, 50, 56, 50, 70, 48, 48, 48, 66>>
\* "E1000007282F0007"
app_id == <<69, 49, 48, 48, 48, 48, 48, 55, 50, 56, 50, 70, 48, 48, 48, 55>>
\* "E100000E282F000E"
target_id == <<69, 49, 48, 48, 48, 48, 48, 69, 50, 56, 50, 70, 48, 48, 48, 69>>
\* "E1000004282F0004"
assets_ref_id == <<69, 49, 48, 48, 48, 48, 48, 52, 50, 56, 50, 70, 48, 48, 48, 52>>
\* "E1000003282F0003"
assets_build_id == <<69, 49, 48, 48, 48, 48, 48, 51, 50, 56, 50, 70, 48, 48, 48, 51>>
\* "E1000006282F0006"
preview_assets_ref_id == <<69, 49, 48, 48, 48, 48, 48, 54, 50, 56, 50, 70, 48, 48, 48, 54>>
\* "E1000005282F0005"
preview_assets_build_id == <<69, 49, 48, 48, 48, 48, 48, 53, 50, 56, 50, 70, 48, 48, 48, 53>>
\* "E1000008282F0008"
info_plist_ref_id == <<69, 49, 48, 48, 48, 48, 48, 56, 50, 56, 50, 70, 48, 48, 48, 56>>
\* "E100000D282F000D"
preview_content_group_id == <<69, 49, 48, 48, 48, 48, 48, 68, 50, 56, 50, 70, 48, 48, 48, 68>>
\* "E100001A282F001A"
resources_group_id == <<69, 49, 48, 48, 48, 48, 49, 65, 50, 56, 50, 70, 48, 48, 49, 65>>
\* "E100001B282F001B"
localizable_variant_group_id == <<69, 49, 48, 48, 48, 48, 49, 66, 50, 56, 50, 70, 48, 48, 49, 66>>
\* "E100001C282F001C"
localizable_en_ref_id == <<69, 49, 48, 48, 48, 48, 49, 67, 50, 56, 50, 70, 48, 48, 49, 67>>
\* "E100001D282F001D"
localizable_pl_ref_id == <<69, 49, 48, 48, 48, 48, 49, 68, 50, 56, 50, 70, 48, 48, 49, 68>>
\* "E100001E282F001E"
localizable_build_id == <<69, 49, 48, 48, 48, 48, 49, 69, 50, 56, 50, 70, 48, 48, 49, 69>>
\* "E1000014282F0014"
project_debug_config == <<69, 49, 48, 48, 48, 48, 49, 52, 50, 56, 50, 70, 48, 48, 49, 52>>
\* "E1000015282F0015"
project_release_config == <<69, 49, 48, 48, 48, 48, 49, 53, 50, 56, 50, 70, 48, 48, 49, 53>>
\* "E1000016282F0016"
target_debug_config == <<69, 49, 48, 48, 48, 48, 49, 54, 50, 56, 50, 70, 48, 48, 49, 54>>
\* "E1000017282F0017"
target_release_config == <<69, 49, 48, 48, 48, 48, 49, 55, 50, 56, 50, 70, 48, 48, 49, 55>>
\* "E1000013282F0013"
project_config_list == <<69, 49, 48, 48, 48, 48, 49, 51, 50, 56, 50, 70, 48, 48, 49, 51>>
\* "E100000F282F000F"
target_config_list == <<69, 49, 48, 48, 48, 48, 48, 70, 50, 56, 50, 70, 48, 48, 48, 70>>
\* "E1000010282F0010"
sources_phase_id == <<69, 49, 48, 48, 48, 48, 49, 48, 50, 56, 50, 70, 48, 48, 49, 48>>
\* "E1000009282F0009"
frameworks_phase_id == <<69, 49, 48, 48, 48, 48, 48, 57, 50, 56, 50, 70, 48, 48, 48, 57>>
\* "E1000011282F0011"
resources_phase_id == <<69, 49, 48, 48, 48, 48, 49, 49, 50, 56, 50, 70, 48, 48, 49, 49>>

\* names of the directories and files the modelled trees are built from
\* "Main.swift"
N_Main == <<77, 97, 105, 110, 46, 115, 119, 105, 102, 116>>
\* "Views"
N_Views == <<86, 105, 101, 119, 115>>
\* "Home.swift"
N_Home == <<72, 111, 109, 101, 46, 115, 119, 105, 102, 116>>
\* "a.swift"
N_a_swift == <<97, 46, 115, 119, 105, 102, 116>>
\* "b.swift"
N_b_swift == <<98, 46, 115, 119, 105, 102, 116>>
\* "a"
N_a == <<97>>
\* "c.swift"
N_c_swift == <<99, 46, 115, 119, 105, 102, 116>>
\* "P.swift"
N_P == <<80, 46, 115, 119, 105, 102, 116>>
\* "Sub"
N_Sub == <<83, 117, 98>>
\* "Q.swift"
N_Q == <<81, 46, 115, 119, 105, 102, 116>>
\* "R.swift"
N_R == <<82, 46, 115, 119, 105, 102, 116>>
\* "Preview Content Old"
N_PreviewOld == <<80, 114, 101, 118, 105, 101, 119, 32, 67, 111, 110, 116, 101, 110, 116, 32, 79, 108, 100>>
\* "S.swift"
N_S == <<83, 46, 115, 119, 105, 102, 116>>
\* "notes.txt"
N_notes == <<110, 111, 116, 101, 115, 46, 116, 120, 116>>
\* "Other"
N_Other == <<79, 116, 104, 101, 114>>
\* "X.swift"
N_X == <<88, 46, 115, 119, 105, 102, 116>>

\* ------------------------------------------------------ string operations

\* the elements of a finite set of numbers, ascending
SortedSeq(S) ==
    [k \in 1..Cardinality(S) |-> CHOOSE x \in S : Cardinality({y \in S : y < x}) = k - 1]

\* s.endswith(suffix)
EndsWith(s, suffix) ==
    /\ Len(suffix) <= Len(s)
    /\ SubSeq(s, Len(s) - Len(suffix) + 1, Len(s)) = suffix

\* sub in s
Contains(s, sub) ==
    \E i \in 1..(Len(s) - Len(sub) + 1) : SubSeq(s, i, i + Len(sub) - 1) = sub

\* a < b on str: the first differing code point decides, a proper prefix is smaller
StrLess(a, b) ==
    \E i \in 1..Len(b) :
        /\ \A j \in 1..(i - 1) : j <= Len(a) /\ a[j] = b[j]
        /\ (i > Len(a) \/ (a[i] < b[i]))

\* os.path.join(a, b)
PathJoin(a, b) ==
    IF Len(b) > 0 /\ b[1] = Sep THEN b
    ELSE IF Len(a) = 0 \/ a[Len(a)] = Sep THEN a \o b
    ELSE a \o <<Sep>> \o b

\* the positions of the separators of s, with both ends
SepPositions(s) ==
    {0, Len(s) + 1} \cup {i \in 1..Len(s) : s[i] = Sep}

\* [x for x in s.split(sep) if x]
SplitPath(s) ==
    LET cuts == SepPositions(s)
        starts == SortedSeq({i \in cuts : i <= Len(s) /\ (i + 1) \notin cuts})
    IN  [k \in 1..Len(starts) |->
            SubSeq(s, starts[k] + 1,
                   (CHOOSE j \in cuts : j > starts[k] /\ \A m \in cuts : m > starts[k] => j <= m) - 1)]

\* sep.join(parts)
RECURSIVE JoinPath(_)
JoinPath(parts) ==
    IF Len(parts) = 0 THEN <<>>
    ELSE IF Len(parts) = 1 THEN parts[1]
    ELSE parts[1] \o <<Sep>> \o JoinPath(Tail(parts))

\* len(os.path.commonprefix([a, b])) on lists of segments
CommonPrefixLen(a, b) ==
    LET same == {n \in 0..Len(a) : n <= Len(b) /\ \A k \in 1..n : a[k] = b[k]}
    IN  CHOOSE n \in same : \A m \in same : m <= n

\* a slip of RelPath: the path relative to the source subdirectory of start
RelPathFromSource(path, start) ==
    LET start_list == SplitPath(start) \o <<SourceDirName>>
        path_list == SplitPath(path)
        i == CommonPrefixLen(start_list, path_list)
        rel_list == [k \in 1..(Len(start_list) - i) |-> ParDir]
                    \o SubSeq(path_list, i + 1, Len(path_list))
    IN  IF Len(rel_list) = 0 THEN CurDir ELSE JoinPath(rel_list)

\* os.path.relpath(path, start), both absolute and normalised
RelPath(path, start) ==
    LET start_list == SplitPath(start)
        path_list == SplitPath(path)
        i == CommonPrefixLen(start_list, path_list)
        rel_list == [k \in 1..(Len(start_list) - i) |-> ParDir]
                    \o SubSeq(path_list, i + 1, Len(path_list))
    IN  IF Len(rel_list) = 0 THEN CurDir ELSE JoinPath(rel_list)

\* s.upper() on the ASCII letters
Upper(s) ==
    [i \in 1..Len(s) |-> IF s[i] >= 97 /\ s[i] <= 122 THEN s[i] - 32 ELSE s[i]]

\* the UTF-8 bytes of one code point below 65536
Utf8(c) ==
    IF c < 128 THEN <<c>>
    ELSE IF c < 2048 THEN <<192 + (c \div 64), 128 + (c % 64)>>
    ELSE <<224 + (c \div 4096), 128 + ((c \div 64) % 64), 128 + (c % 64)>>

\* name.encode()
RECURSIVE Encode(_)
Encode(s) ==
    IF Len(s) = 0 THEN <<>> ELSE Utf8(s[1]) \o Encode(Tail(s))

\* ------------------------------------------------------------ hashlib.md5
\* 32-bit words are pairs <<high 16 bits, low 16 bits>>

\* floor(2^32 * abs(sin(i + 1))), high halves
KHi == <<55146, 59591, 9248, 49597, 62844, 18311, 43056, 64838, 27008, 35652, 65535, 35164, 27536, 64920, 42617, 18868, 63006, 49216, 9822, 59830, 54831, 580, 55457, 59347, 8673, 49975, 62677, 17754, 43491, 64751, 26479, 36138, 65530, 34673, 28061, 64997, 42174, 19422, 63163, 48831, 10395, 60065, 54511, 1160, 55764, 59099, 8098, 50348, 62505, 17194, 43924, 64659, 25947, 36620, 65519, 34180, 28584, 65068, 41729, 19976, 63315, 48442, 10967, 60294>>
\* floor(2^32 * abs(sin(i + 1))), low halves
KLo == <<42104, 46934, 28891, 52974, 4015, 50730, 17939, 38145, 39128, 63407, 23473, 55230, 4386, 29075, 17294, 2081, 9570, 45888, 23121, 51114, 4189, 5203, 59009, 64456, 52710, 2006, 3463, 5357, 59653, 41976, 729, 19594, 14658, 63105, 24866, 14348, 59972, 53161, 19296, 48240, 32454, 10234, 12421, 7429, 53305, 39397, 31992, 22117, 8772, 65431, 9127, 41017, 22979, 52370, 62589, 24017, 32335, 59104, 17172, 4513, 32386, 62005, 53947, 54161>>
\* the per-operation left rotations
Shift == <<7, 12, 17, 22, 7, 12, 17, 22, 7, 12, 17, 22, 7, 12, 17, 22, 5, 9, 14, 20, 5, 9, 14, 20, 5, 9, 14, 20, 5, 9, 14, 20, 4, 11, 16, 23, 4, 11, 16, 23, 4, 11, 16, 23, 4, 11, 16, 23, 6, 10, 15, 21, 6, 10, 15, 21, 6, 10, 15, 21, 6, 10, 15, 21>>
\* the initial chaining value 67452301 efcdab89 98badcfe 10325476
Md5Init == <<<<26437, 8961>>, <<61389, 43913>>, <<39098, 56574>>, <<4146, 21622>>>>

RECURSIVE Pow2(_)
Pow2(n) == IF n = 0 THEN 1 ELSE 2 * Pow2(n - 1)

\* one bit of the round function: rounds 0..3 are F, G, H, I
RoundBit(r, b, c, d) ==
    CASE r = 0 -> IF b = 1 THEN c ELSE d
      [] r = 1 -> IF d = 1 THEN b ELSE c
      [] r = 2 -> (b + c + d) % 2
      [] r = 3 -> IF (IF b = 1 \/ d = 0 THEN 1 ELSE 0) = c THEN 0 ELSE 1

RECURSIVE RoundHalf(_, _, _, _, _)
RoundHalf(r, b, c, d, n) ==
    IF n = 0 THEN 0
    ELSE RoundBit(r, b % 2, c % 2, d % 2)
         + 2 * RoundHalf(r, b \div 2, c \div 2, d \div 2, n - 1)

RoundFn(r, B, C, D) ==
    <<RoundHalf(r, B[1], C[1], D[1], 16), RoundHalf(r, B[2], C[2], D[2], 16)>>

\* addition modulo 2^32
Add32(X, Y) ==
    LET lo == X[2] + Y[2]
    IN  <<(X[1] + Y[1] + (lo \div 65536)) % 65536, lo % 65536>>

\* rotation to the left by s bits, 0 < s < 32
Rotl32(X, s) ==
    LET Y == IF s >= 16 THEN <<X[2], X[1]>> ELSE X
        t == IF s >= 16 THEN s - 16 ELSE s
        p == Pow2(t)
        q == Pow2(16 - t)
    IN  <<((Y[1] * p) % 65536) + (Y[2] \div q), ((Y[2] * p) % 65536) + (Y[1] \div q)>>

\* the message word operation i reads
MsgIndex(i) ==
    CASE i < 16 -> i
      [] i < 32 -> (5 * i + 1) % 16
      [] i < 48 -> (3 * i + 5) % 16
      [] OTHER  -> (7 * i) % 16

\* the padded message: the bytes, 0x80, zeros up to 56 modulo 64, the bit length
\* as 8 little-endian bytes
Pad(bytes) ==
    LET n == Len(bytes)
        bits == 8 * n
    IN  bytes \o <<128>> \o [i \in 1..((55 - n) % 64) |-> 0]
        \o <<bits % 256, (bits \div 256) % 256, (bits \div 65536) % 256, 0, 0, 0, 0, 0>>

\* little-endian word j of block blk of the padded message p
Word(p, blk, j) ==
    LET o == 64 * blk + 4 * j
    IN  <<p[o + 4] * 256 + p[o + 3], p[o + 2] * 256 + p[o + 1]>>

\* one of the 64 operations: <<A, B, C, D>> becomes <<D, B + rotl(F + A + K + M, s), B, C>>
Md5Step(st, p, blk, i) ==
    LET f == RoundFn(i \div 16, st[2], st[3], st[4])
        x == Add32(Add32(f, st[1]),
                   Add32(<<KHi[i + 1], KLo[i + 1]>>, Word(p, blk, MsgIndex(i))))
    IN  <<st[4], Add32(st[2], Rotl32(x, Shift[i + 1])), st[2], st[3]>>

\* operations i..63 on one block (each state is computed before the next operation)
RECURSIVE Md5Rounds(_, _, _, _)
Md5Rounds(st, p, blk, i) ==
    IF i = 64 \/ Len(st) # 4 THEN st ELSE Md5Rounds(Md5Step(st, p, blk, i), p, blk, i + 1)

RECURSIVE Md5Blocks(_, _, _)
Md5Blocks(h, p, blk) ==
    IF 64 * blk >= Len(p) THEN h
    ELSE LET r == Md5Rounds(h, p, blk, 0)
         IN  Md5Blocks([k \in 1..4 |-> Add32(h[k], r[k])], p, blk + 1)

\* the character of a hexadecimal digit, lower case as hexdigest() gives it
HexChar(d) == IF d < 10 THEN 48 + d ELSE 87 + d

\* the 8 hexadecimal characters of a word, in digest (little-endian) order
WordHex(W) ==
    <<HexChar((W[2] % 256) \div 16), HexChar(W[2] % 16),
      HexChar(W[2] \div 4096), HexChar((W[2] \div 256) % 16),
      HexChar((W[1] % 256) \div 16), HexChar(W[1] % 16),
      HexChar(W[1] \div 4096), HexChar((W[1] \div 256) % 16)>>

\* hashlib.md5(bytes).hexdigest()
Md5HexDigest(bytes) ==
    LET h == Md5Blocks(Md5Init, Pad(bytes), 0)
    IN  WordHex(h[1]) \o WordHex(h[2]) \o WordHex(h[3]) \o WordHex(h[4])

\* the bytes of the key main() hashes for a file of the tree
Md5Key(prefix, segs) == Encode(prefix \o JoinPath(segs))

\* ------------------------------------------------------ the directory tree
\* Paths of the tree are sequences of names below BaseDir; <<>> is BaseDir.

CandidateFiles ==
    { <<SourceDirName, N_Main>>,
      <<SourceDirName, N_Views, N_Home>>,
      <<SourceDirName, N_a_swift>>,
      <<SourceDirName, N_b_swift>>,
      <<SourceDirName, N_a, N_c_swift>>,
      <<SourceDirName, ExcludedName, N_P>>,
      <<SourceDirName, ExcludedName, N_Sub, N_Q>>,
      <<SourceDirName, N_Views, ExcludedName, N_R>>,
      <<SourceDirName, N_PreviewOld, N_S>>,
      <<SourceDirName, N_notes>>,
      <<N_Other, N_X>> }

\* directories that may exist without holding a file
ExtraDirs ==
    { {},
      {<<>>},
      {<<>>, <<SourceDirName>>},
      {<<>>, <<SourceDirName>>, <<SourceDirName, ExcludedName>>} }

\* the directories a set of files needs
ParentDirs(F) == UNION {{SubSeq(f, 1, k) : k \in 0..(Len(f) - 1)} : f \in F}

\* the digests of the keys that the modelled trees can give, computed once
Md5Memo ==
    [b \in {Md5Key(p, f) : p \in {FileRefPrefix, BuildFilePrefix}, f \in CandidateFiles}
        |-> Md5HexDigest(b)]

VARIABLES
    fs_dirs,      \* the directories that exist
    fs_files,     \* the files that exist
    disk,         \* DuEasy.xcodeproj/project.pbxproj: [exists, text, torn, closed]
    run,          \* 1 for the first run of the script, 2 for the second
    disk0,        \* disk as it was when the current run started
    found0,       \* the enumeration order of the previous run
    pc,           \* where main() stands
    stack,        \* os.walk: the directories still to visit, next first
    found,        \* get_swift_files: swift_files, in enumeration order
    swift_files,  \* main: swift_files
    file_refs,    \* main: file_refs
    build_files,  \* main: build_files
    pbxproj,      \* main: pbxproj
    err,          \* the call that raised, "" if none
    printed       \* the number the summary line reports, -1 before it is printed

vars == <<fs_dirs, fs_files, disk, run, disk0, found0, pc, stack, found, swift_files,
          file_refs, build_files, pbxproj, err, printed>>

\* the path below BaseDir that an absolute path names
BelowBase(path) ==
    LET segs == SplitPath(path)
        b == SplitPath(BaseDir)
    IN  IF Len(segs) >= Len(b) /\ SubSeq(segs, 1, Len(b)) = b
        THEN SubSeq(segs, Len(b) + 1, Len(segs))
        ELSE <<ParDir>>

\* os.scandir(path) succeeds
IsDir(path) == BelowBase(path) \in fs_dirs

\* the names of the files and of the directories in a directory
ListFiles(path) ==
    {f[Len(f)] : f \in {g \in fs_files : SubSeq(g, 1, Len(g) - 1) = BelowBase(path)}}

ListDirs(path) ==
    {d[Len(d)] : d \in {g \in fs_dirs : Len(g) > 0 /\ SubSeq(g, 1, Len(g) - 1) = BelowBase(path)}}

\* the orders in which a directory listing may come
Orders(S) ==
    {p \in [1..Cardinality(S) -> S] : \A i, j \in 1..Cardinality(S) : p[i] = p[j] => i = j}

\* ------------------------------------------------------------ generate_uuid
generate_uuid(name) ==
    LET bytes == Encode(name)
        hexdigest == IF bytes \in DOMAIN Md5Memo THEN Md5Memo[bytes] ELSE Md5HexDigest(bytes)
    IN  Upper(SubSeq(hexdigest, 1, 24))

\* ---------------------------------------------------------- get_swift_files
\* the body of the loop over files: the (file, rel_path) pairs of the files of one
\* directory, in listing order
RECURSIVE SwiftOf(_, _)
SwiftOf(root, files) ==
    IF Len(files) = 0 THEN <<>>
    ELSE LET file == files[1]
             full_path == PathJoin(root, file)
             rel_path == RelPath(full_path, BaseDir)
         IN  (IF EndsWith(file, SwiftExt) THEN <<(<<file, rel_path>>)>> ELSE <<>>)
             \o SwiftOf(root, Tail(files))

\* a slip of Skipped: only a directory that is itself named "Preview Content"
SkippedByName(root) == EndsWith(root, <<Sep>> \o ExcludedName)

\* "Preview Content" in root
Skipped(root) == Contains(root, ExcludedName)

\* a slip of SortKey: the file name instead of the relative path
SortKeyName(x) == x[1]

\* key=lambda x: x[1]
SortKey(x) == x[2]

\* a slip of Sorted: the list as it was enumerated
Unsorted(list) == list

\* sorted(swift_files, key=...): ascending by key, equal keys in their given order
Sorted(list) ==
    LET n == Len(list)
        before(j, i) == \/ StrLess(SortKey(list[j]), SortKey(list[i]))
                        \/ (SortKey(list[j]) = SortKey(list[i]) /\ j < i)
        rank(i) == Cardinality({j \in 1..n : before(j, i)}) + 1
    IN  [k \in 1..n |-> list[CHOOSE i \in 1..n : rank(i) = k]]

\* ------------------------------------------------------- the manifest text
\* A line record: kind "begin"/"end" (a section marker), "entry" (a one-line
\* object), "object" (the first line of a many-line object), "ref" (a line of an
\* object that names another object) or "root" (rootObject).  id is the
\* identifier the line defines, ref the one it refers to, name the file name
\* in its comment, path the path field, label the fixed text of the line.
Line(kind, sec, id, name, label, key, ref, path) ==
    [kind |-> kind, sec |-> sec, id |-> id, name |-> name, label |-> label,
     key |-> key, ref |-> ref, path |-> path]

Begin(sec) == Line("begin", sec, <<>>, <<>>, "", "", <<>>, <<>>)
End(sec) == Line("end", sec, <<>>, <<>>, "", "", <<>>, <<>>)
Object(sec, id, label) == Line("object", sec, id, <<>>, label, "", <<>>, <<>>)
Ref(sec, key, ref, name, label) == Line("ref", sec, <<>>, name, label, key, ref, <<>>)
BuildFile(id, name, label, ref) == Line("entry", "PBXBuildFile", id, name, label, "fileRef", ref, <<>>)
FileReference(id, name, label, path) ==
    Line("entry", "PBXFileReference", id, name, label, "", <<>>, path)

\* a slip of FileRefKey: the prefix of the build file key
FileRefKeyAsBuildFile(rel_path) == BuildFilePrefix \o rel_path

\* the key of a file's file reference and of its build file
FileRefKey(rel_path) == FileRefPrefix \o rel_path
BuildFileKey(rel_path) == BuildFilePrefix \o rel_path

BuildFileSection(bf) ==
    <<Begin("PBXBuildFile")>>
    \o [i \in 1..Len(bf) |-> BuildFile(bf[i][1], bf[i][3], "in Sources", bf[i][2])]
    \o <<BuildFile(assets_build_id, <<>>, "Assets.xcassets in Resources", assets_ref_id),
         BuildFile(preview_assets_build_id, <<>>, "Preview Assets.xcassets in Resources",
                   preview_assets_ref_id),
         BuildFile(localizable_build_id, <<>>, "Localizable.strings in Resources",
                   localizable_variant_group_id),
         End("PBXBuildFile")>>

FileReferenceSection(fr) ==
    <<Begin("PBXFileReference")>>
    \o [i \in 1..Len(fr) |-> FileReference(fr[i][1], fr[i][2], "sourcecode.swift", fr[i][3])]
    \o <<FileReference(app_id, <<>>, "DuEasy.app", <<>>),
         FileReference(assets_ref_id, <<>>, "Assets.xcassets", <<>>),
         FileReference(preview_assets_ref_id, <<>>, "Preview Assets.xcassets", <<>>),
         FileReference(info_plist_ref_id, <<>>, "Info.plist", <<>>),
         FileReference(localizable_en_ref_id, <<>>, "en", <<>>),
         FileReference(localizable_pl_ref_id, <<>>, "pl", <<>>),
         End("PBXFileReference")>>

FrameworksSection ==
    <<Begin("PBXFrameworksBuildPhase"),
      Object("PBXFrameworksBuildPhase", frameworks_phase_id, "Frameworks"),
      End("PBXFrameworksBuildPhase")>>

\* a slip of GroupChildren: the first file is left out
GroupChildrenButFirst(fr) ==
    [i \in 1..(Len(fr) - 1) |-> Ref("PBXGroup", "children", fr[i + 1][1], fr[i + 1][2], "")]

\* the children of the DuEasy group that come from the discovered files
GroupChildren(fr) ==
    [i \in 1..Len(fr) |-> Ref("PBXGroup", "children", fr[i][1], fr[i][2], "")]

GroupSection(fr) ==
    <<Begin("PBXGroup"),
      Object("PBXGroup", main_group_id, ""),
      Ref("PBXGroup", "children", dueasy_group_id, <<>>, "DuEasy"),
      Ref("PBXGroup", "children", products_group_id, <<>>, "Products"),
      Object("PBXGroup", products_group_id, "Products"),
      Ref("PBXGroup", "children", app_id, <<>>, "DuEasy.app"),
      Object("PBXGroup", dueasy_group_id, "DuEasy")>>
    \o GroupChildren(fr)
    \o <<Ref("PBXGroup", "children", info_plist_ref_id, <<>>, "Info.plist"),
         Ref("PBXGroup", "children", assets_ref_id, <<>>, "Assets.xcassets"),
         Ref("PBXGroup", "children", resources_group_id, <<>>, "Resources"),
         Ref("PBXGroup", "children", preview_content_group_id, <<>>, "Preview Content"),
         Object("PBXGroup", resources_group_id, "Resources"),
         Ref("PBXGroup", "children", localizable_variant_group_id, <<>>, "Localizable.strings"),
         Object("PBXGroup", preview_content_group_id, "Preview Content"),
         Ref("PBXGroup", "children", preview_assets_ref_id, <<>>, "Preview Assets.xcassets"),
         End("PBXGroup")>>

VariantGroupSection ==
    <<Begin("PBXVariantGroup"),
      Object("PBXVariantGroup", localizable_variant_group_id, "Localizable.strings"),
      Ref("PBXVariantGroup", "children", localizable_en_ref_id, <<>>, "en"),
      Ref("PBXVariantGroup", "children", localizable_pl_ref_id, <<>>, "pl"),
      End("PBXVariantGroup")>>

NativeTargetSection ==
    <<Begin("PBXNativeTarget"),
      Object("PBXNativeTarget", target_id, "DuEasy"),
      Ref("PBXNativeTarget", "buildConfigurationList", target_config_list, <<>>,
          "Build configuration list for PBXNativeTarget"),
      Ref("PBXNativeTarget", "buildPhases", sources_phase_id, <<>>, "Sources"),
      Ref("PBXNativeTarget", "buildPhases", frameworks_phase_id, <<>>, "Frameworks"),
      Ref("PBXNativeTarget", "buildPhases", resources_phase_id, <<>>, "Resources"),
      Ref("PBXNativeTarget", "productReference", app_id, <<>>, "DuEasy.app"),
      End("PBXNativeTarget")>>

ProjectSection ==
    <<Begin("PBXProject"),
      Object("PBXProject", project_id, "Project object"),
      Ref("PBXProject", "TargetAttributes", target_id, <<>>, ""),
      Ref("PBXProject", "buildConfigurationList", project_config_list, <<>>,
          "Build configuration list for PBXProject"),
      Ref("PBXProject", "mainGroup", main_group_id, <<>>, ""),
      Ref("PBXProject", "productRefGroup", products_group_id, <<>>, "Products"),
      Ref("PBXProject", "targets", target_id, <<>>, "DuEasy"),
      End("PBXProject")>>

ResourcesPhaseSection ==
    <<Begin("PBXResourcesBuildPhase"),
      Object("PBXResourcesBuildPhase", resources_phase_id, "Resources"),
      Ref("PBXResourcesBuildPhase", "files", preview_assets_build_id, <<>>,
          "Preview Assets.xcassets in Resources"),
      Ref("PBXResourcesBuildPhase", "files", assets_build_id, <<>>,
          "Assets.xcassets in Resources"),
      Ref("PBXResourcesBuildPhase", "files", localizable_build_id, <<>>,
          "Localizable.strings in Resources"),
      End("PBXResourcesBuildPhase")>>

\* a slip of SourcesFiles: the file-reference identifier instead of the build file's
SourcesFilesByFileRef(bf) ==
    [i \in 1..Len(bf) |-> Ref("PBXSourcesBuildPhase", "files", bf[i][2], bf[i][3], "in Sources")]

\* the files of the sources phase
SourcesFiles(bf) ==
    [i \in 1..Len(bf) |-> Ref("PBXSourcesBuildPhase", "files", bf[i][1], bf[i][3], "in Sources")]

SourcesPhaseSection(bf) ==
    <<Begin("PBXSourcesBuildPhase"),
      Object("PBXSourcesBuildPhase", sources_phase_id, "Sources")>>
    \o SourcesFiles(bf)
    \o <<End("PBXSourcesBuildPhase")>>

BuildConfigurationSection ==
    <<Begin("XCBuildConfiguration"),
      Object("XCBuildConfiguration", project_debug_config, "Debug"),
      Object("XCBuildConfiguration", project_release_config, "Release"),
      Object("XCBuildConfiguration", target_debug_config, "Debug"),
      Object("XCBuildConfiguration", target_release_config, "Release"),
      End("XCBuildConfiguration")>>

ConfigurationListSection ==
    <<Begin("XCConfigurationList"),
      Object("XCConfigurationList", project_config_list,
             "Build configuration list for PBXProject"),
      Ref("XCConfigurationList", "buildConfigurations", project_debug_config, <<>>, "Debug"),
      Ref("XCConfigurationList", "buildConfigurations", project_release_config, <<>>, "Release"),
      Object("XCConfigurationList", target_config_list,
             "Build configuration list for PBXNativeTarget"),
      Ref("XCConfigurationList", "buildConfigurations", target_debug_config, <<>>, "Debug"),
      Ref("XCConfigurationList", "buildConfigurations", target_release_config, <<>>, "Release"),
      End("XCConfigurationList")>>

RootObject == <<Line("root", "", <<>>, <<>>, "Project object", "rootObject", project_id, <<>>)>>

\* a slip of Manifest: the sources phase before the resources phase
ManifestSourcesFirst(fr, bf) ==
    BuildFileSection(bf) \o FileReferenceSection(fr) \o FrameworksSection
    \o GroupSection(fr) \o VariantGroupSection \o NativeTargetSection \o ProjectSection
    \o SourcesPhaseSection(bf) \o ResourcesPhaseSection
    \o BuildConfigurationSection \o ConfigurationListSection \o RootObject

\* pbxproj as main() concatenates it
Manifest(fr, bf) ==
    BuildFileSection(bf) \o FileReferenceSection(fr) \o FrameworksSection
    \o GroupSection(fr) \o VariantGroupSection \o NativeTargetSection \o ProjectSection
    \o ResourcesPhaseSection \o SourcesPhaseSection(bf)
    \o BuildConfigurationSection \o ConfigurationListSection \o RootObject

\* ------------------------------------------------------------------ main()
\* the manifest file: whether it exists, the complete lines of the objects and of
\* rootObject it holds, whether a broken piece of the next line follows them, and
\* whether the closing brace of line 485 ends it
File(exists, text, torn, closed) ==
    [exists |-> exists, text |-> text, torn |-> torn, closed |-> closed]

NoFile == File(FALSE, <<>>, FALSE, FALSE)

\* the numbers of complete lines a failing write may leave: any, from none to all
\* n (then only the closing brace is missing or broken)
CutPoints(n) == 0..n

\* line 38 and line 39
file_ref_id(rel_path) == generate_uuid(FileRefKey(rel_path))
build_file_id(rel_path) == generate_uuid(BuildFileKey(rel_path))

\* lines 37-41: file_refs and build_files after the loop over swift_files
FileRefs(sf) ==
    [i \in 1..Len(sf) |-> <<file_ref_id(sf[i][2]), sf[i][1], sf[i][2]>>]

BuildFiles(sf) ==
    [i \in 1..Len(sf) |-> <<build_file_id(sf[i][2]), file_ref_id(sf[i][2]), sf[i][1]>>]

Init ==
    /\ \E F \in SUBSET CandidateFiles, E \in ExtraDirs :
          /\ Cardinality(F) <= MaxFiles
          /\ fs_files = F
          /\ fs_dirs = ParentDirs(F) \cup E
    /\ disk = NoFile
    /\ run = 1
    /\ disk0 = NoFile
    /\ found0 = <<>>
    /\ pc = "main"
    /\ stack = <<>>
    /\ found = <<>>
    /\ swift_files = <<>>
    /\ file_refs = <<>>
    /\ build_files = <<>>
    /\ pbxproj = <<>>
    /\ err = ""
    /\ printed = -1

\* line 31 calls get_swift_files; line 18 starts os.walk at base_dir/DuEasy
CallGetSwiftFiles ==
    /\ pc = "main"
    /\ pc' = "walk"
    /\ stack' = <<PathJoin(BaseDir, SourceDirName)>>
    /\ found' = <<>>
    /\ UNCHANGED <<fs_dirs, fs_files, disk, run, disk0, found0, swift_files, file_refs,
                   build_files, pbxproj, err, printed>>

\* os.walk on a directory that cannot be listed: the error is dropped (onerror is
\* None) and the directory yields nothing
WalkMissing ==
    /\ pc = "walk"
    /\ stack # <<>>
    /\ ~IsDir(Head(stack))
    /\ stack' = Tail(stack)
    /\ UNCHANGED <<fs_dirs, fs_files, disk, run, disk0, found0, pc, found, swift_files,
                   file_refs, build_files, pbxproj, err, printed>>

\* one iteration of the loop of line 18: os.walk yields (root, dirs, files) in the
\* order the listing comes in, the body runs, and the subdirectories are walked next
WalkDir ==
    /\ pc = "walk"
    /\ stack # <<>>
    /\ IsDir(Head(stack))
    /\ LET root == Head(stack)
       IN  \E files \in Orders(ListFiles(root)), dirs \in Orders(ListDirs(root)) :
              /\ found' = IF Skipped(root) THEN found ELSE found \o SwiftOf(root, files)
              /\ stack' = [i \in 1..Len(dirs) |-> PathJoin(root, dirs[i])] \o Tail(stack)
    /\ UNCHANGED <<fs_dirs, fs_files, disk, run, disk0, found0, pc, swift_files,
                   file_refs, build_files, pbxproj, err, printed>>

\* line 27: get_swift_files returns the sorted list to main
ReturnSorted ==
    /\ pc = "walk"
    /\ stack = <<>>
    /\ swift_files' = Sorted(found)
    /\ pc' = "ids"
    /\ UNCHANGED <<fs_dirs, fs_files, disk, run, disk0, found0, stack, found,
                   file_refs, build_files, pbxproj, err, printed>>

\* lines 34-41
DeriveIds ==
    /\ pc = "ids"
    /\ file_refs' = FileRefs(swift_files)
    /\ build_files' = BuildFiles(swift_files)
    /\ pc' = "assemble"
    /\ UNCHANGED <<fs_dirs, fs_files, disk, run, disk0, found0, stack, found,
                   swift_files, pbxproj, err, printed>>

\* lines 80-486
Assemble ==
    /\ pc = "assemble"
    /\ pbxproj' = Manifest(file_refs, build_files)
    /\ pc' = "open"
    /\ UNCHANGED <<fs_dirs, fs_files, disk, run, disk0, found0, stack, found,
                   swift_files, file_refs, build_files, err, printed>>

\* line 490, open(output_path, 'w') succeeds: the file is created or truncated
OpenOutput ==
    /\ pc = "open"
    /\ <<>> \in fs_dirs
    /\ disk' = File(TRUE, <<>>, FALSE, FALSE)
    /\ pc' = "write"
    /\ UNCHANGED <<fs_dirs, fs_files, run, disk0, found0, stack, found, swift_files,
                   file_refs, build_files, pbxproj, err, printed>>

\* line 490, open raises (DuEasy.xcodeproj missing or not writable): main() ends
\* with the exception and the file is as it was
OpenFails ==
    /\ pc = "open"
    /\ err' = "open"
    /\ pc' = "error"
    /\ UNCHANGED <<fs_dirs, fs_files, disk, run, disk0, found0, stack, found,
                   swift_files, file_refs, build_files, pbxproj, printed>>

\* line 491 and the end of the with block: everything is written
WriteOutput ==
    /\ pc = "write"
    /\ disk' = File(TRUE, pbxproj, FALSE, TRUE)
    /\ pc' = "print"
    /\ UNCHANGED <<fs_dirs, fs_files, run, disk0, found0, stack, found, swift_files,
                   file_refs, build_files, pbxproj, err, printed>>

\* line 491 or the close at the end of the with block raises part-way (disk full,
\* file size limit, I/O error): the bytes that reached the file stay in it, any
\* number of complete lines and possibly a broken piece of the next one, and
\* main() ends with the exception
WriteFails ==
    /\ pc = "write"
    /\ \E cut \in CutPoints(Len(pbxproj)), torn \in BOOLEAN :
          disk' = File(TRUE, SubSeq(pbxproj, 1, cut), torn, FALSE)
    /\ err' = "write"
    /\ pc' = "error"
    /\ UNCHANGED <<fs_dirs, fs_files, run, disk0, found0, stack, found, swift_files,
                   file_refs, build_files, pbxproj, printed>>

\* line 493
PrintSummary ==
    /\ pc = "print"
    /\ printed' = Len(swift_files)
    /\ pc' = "done"
    /\ UNCHANGED <<fs_dirs, fs_files, disk, run, disk0, found0, stack, found,
                   swift_files, file_refs, build_files, pbxproj, err>>

\* the script is run a second time on the unchanged tree
Rerun ==
    /\ pc = "done"
    /\ run = 1
    /\ run' = 2
    /\ disk0' = disk
    /\ found0' = found
    /\ pc' = "main"
    /\ stack' = <<>>
    /\ found' = <<>>
    /\ swift_files' = <<>>
    /\ file_refs' = <<>>
    /\ build_files' = <<>>
    /\ pbxproj' = <<>>
    /\ err' = ""
    /\ printed' = -1
    /\ UNCHANGED <<fs_dirs, fs_files, disk>>

Next ==
    \/ CallGetSwiftFiles
    \/ WalkMissing
    \/ WalkDir
    \/ ReturnSorted
    \/ DeriveIds
    \/ Assemble
    \/ OpenOutput
    \/ OpenFails
    \/ WriteOutput
    \/ WriteFails
    \/ PrintSummary
    \/ Rerun

Spec == Init /\ [][Next]_vars

\* ------------------------------------------------- reading a manifest text

\* the 26 fixed identifiers, in the order main() assigns them
FixedIds ==
    <<project_id, main_group_id, products_group_id, dueasy_group_id, app_id, target_id,
      assets_ref_id, assets_build_id, preview_assets_ref_id, preview_assets_build_id,
      info_plist_ref_id, preview_content_group_id,
      resources_group_id, localizable_variant_group_id, localizable_en_ref_id,
      localizable_pl_ref_id, localizable_build_id,
      project_debug_config, project_release_config, target_debug_config,
      target_release_config, project_config_list, target_config_list,
      sources_phase_id, frameworks_phase_id, resources_phase_id>>

FixedIdSet == {FixedIds[i] : i \in 1..Len(FixedIds)}

\* the lines of m at the positions of I, in order
LinesAt(m, I) == LET at == SortedSeq(I) IN [k \in 1..Len(at) |-> m[at[k]]]

\* the identifier of the object that line i of m belongs to
OwnerOf(m, i) ==
    LET objs == {j \in 1..i : m[j].kind = "object"}
    IN  IF objs = {} THEN <<>> ELSE m[CHOOSE j \in objs : \A k \in objs : k <= j].id

\* the entries of a one-line section that are not among the fixed ones
PerFileEntries(m, sec) ==
    LinesAt(m, {i \in 1..Len(m) : /\ m[i].kind = "entry"
                                   /\ m[i].sec = sec
                                   /\ m[i].id \notin FixedIdSet})

\* the lines with the given key in the object id
RefsOf(m, id, key) ==
    LinesAt(m, {i \in 1..Len(m) : /\ m[i].kind = "ref"
                                   /\ m[i].key = key
                                   /\ OwnerOf(m, i) = id})

\* the children of the DuEasy group that are not among the fixed ones
PerFileChildren(m) ==
    LET ch == RefsOf(m, dueasy_group_id, "children")
    IN  LinesAt(ch, {i \in 1..Len(ch) : ch[i].ref \notin FixedIdSet})

\* the position of the marker that begins, or ends, a section; 0 if there is none
MarkerAt(m, kind, sec) ==
    LET at == {i \in 1..Len(m) : m[i].kind = kind /\ m[i].sec = sec}
    IN  IF Cardinality(at) = 1 THEN CHOOSE i \in at : TRUE ELSE 0

\* section a is complete before section b begins
Precedes(m, a, b) ==
    /\ 0 < MarkerAt(m, "begin", a)
    /\ MarkerAt(m, "begin", a) < MarkerAt(m, "end", a)
    /\ MarkerAt(m, "end", a) < MarkerAt(m, "begin", b)

\* get_swift_files has returned to main
Returned == pc \in {"ids", "assemble", "open", "write", "print", "done", "error"}

\* the set of the elements of a sequence
Range(s) == {s[i] : i \in 1..Len(s)}

\* a file of the tree lies in a directory named "Preview Content" below DuEasy
UnderExcluded(f) ==
    /\ Len(f) >= 3
    /\ f[1] = SourceDirName
    /\ \E k \in 2..(Len(f) - 1) : f[k] = ExcludedName

\* ------------------------------------------------------------------ claims

\* C1: in the manifest main() has written, each of the N discovered files has
\* exactly one file-reference entry (with its name and path), exactly one
\* build-file entry whose fileRef is that entry's identifier, exactly one child
\* of the DuEasy group naming that identifier and exactly one line of the
\* sources phase naming the build-file identifier; each of the four lists has
\* exactly N per-file entries, so none stands for a file that was not discovered.
C1_OneToOne ==
    pc = "done" =>
        LET m == disk.text
            N == Len(swift_files)
            fr == PerFileEntries(m, "PBXFileReference")
            bf == PerFileEntries(m, "PBXBuildFile")
            ch == PerFileChildren(m)
            sf == RefsOf(m, sources_phase_id, "files")
        IN  /\ Len(fr) = N /\ Len(bf) = N /\ Len(ch) = N /\ Len(sf) = N
            /\ \A k \in 1..N :
                  /\ Cardinality({i \in 1..N : fr[i].path = swift_files[k][2]}) = 1
                  /\ \A i \in 1..N :
                        fr[i].path = swift_files[k][2] =>
                            /\ fr[i].name = swift_files[k][1]
                            /\ Cardinality({j \in 1..N : bf[j].ref = fr[i].id}) = 1
                            /\ Cardinality({j \in 1..N : ch[j].ref = fr[i].id}) = 1
                            /\ \A j \in 1..N :
                                  bf[j].ref = fr[i].id =>
                                      /\ bf[j].name = swift_files[k][1]
                                      /\ Cardinality({x \in 1..N : sf[x].ref = bf[j].id}) = 1

\* C1 witness: a manifest of three discovered files has been written
C1_Witness ==
    /\ pc = "done"
    /\ Len(swift_files) = 3
    /\ Len(PerFileEntries(disk.text, "PBXBuildFile")) = 3
    /\ Len(PerFileChildren(disk.text)) = 3

\* C2 (as claimed): when base_dir or base_dir/DuEasy is missing, get_swift_files
\* never returns to main and the manifest file is never opened or written.
C2_MissingDirAborts ==
    (<<>> \notin fs_dirs \/ <<SourceDirName>> \notin fs_dirs) =>
        /\ pc \notin {"ids", "assemble", "open", "write", "print", "done"}
        /\ disk = disk0

\* C3 (as claimed): when open or write has raised, the manifest file is as it was
\* when the run started.
C3_AllOrNothing ==
    (pc = "error" /\ err \in {"open", "write"}) => disk = disk0

\* C4: a file in a directory named "Preview Content", at any depth below DuEasy,
\* is not in the list get_swift_files builds or returns, and neither its path nor
\* one of its two identifiers is on a line of pbxproj or of the written file.
C4_ExcludedNeverAppears ==
    \A f \in fs_files :
        UnderExcluded(f) =>
            LET p == JoinPath(f)
                ids == {generate_uuid(FileRefPrefix \o p), generate_uuid(BuildFilePrefix \o p)}
            IN  /\ \A i \in 1..Len(found) : found[i][2] # p
                /\ \A i \in 1..Len(swift_files) : swift_files[i][2] # p
                /\ \A l \in Range(pbxproj) \cup Range(disk.text) :
                      l.path # p /\ l.id \notin ids /\ l.ref \notin ids

\* C4 witness: a manifest has been written for a tree with a source file, a file
\* two levels below DuEasy/Preview Content and a file in Views/Preview Content
C4_Witness ==
    /\ pc = "done"
    /\ printed >= 1
    /\ <<SourceDirName, ExcludedName, N_Sub, N_Q>> \in fs_files
    /\ <<SourceDirName, N_Views, ExcludedName, N_R>> \in fs_files

\* C5 (as claimed): build files, file references, groups, sources phase,
\* resources phase, build configurations, in this order.
C5_ClaimedOrder ==
    pc = "done" =>
        /\ Precedes(disk.text, "PBXBuildFile", "PBXFileReference")
        /\ Precedes(disk.text, "PBXFileReference", "PBXGroup")
        /\ Precedes(disk.text, "PBXGroup", "PBXSourcesBuildPhase")
        /\ Precedes(disk.text, "PBXSourcesBuildPhase", "PBXResourcesBuildPhase")
        /\ Precedes(disk.text, "PBXResourcesBuildPhase", "XCBuildConfiguration")

\* C5 (amended): build files, file references, groups, resources phase, sources
\* phase, build configurations, in this order, whatever files were discovered.
C5_SectionOrder ==
    pc = "done" =>
        /\ Precedes(disk.text, "PBXBuildFile", "PBXFileReference")
        /\ Precedes(disk.text, "PBXFileReference", "PBXGroup")
        /\ Precedes(disk.text, "PBXGroup", "PBXResourcesBuildPhase")
        /\ Precedes(disk.text, "PBXResourcesBuildPhase", "PBXSourcesBuildPhase")
        /\ Precedes(disk.text, "PBXSourcesBuildPhase", "XCBuildConfiguration")

\* C5 witness: a manifest with a non-empty sources phase has been written
C5_Witness ==
    /\ pc = "done"
    /\ Len(RefsOf(disk.text, sources_phase_id, "files")) >= 2
    /\ MarkerAt(disk.text, "begin", "PBXResourcesBuildPhase") > 0

\* C6 (as claimed): get_swift_files returns, once each, exactly the files below
\* DuEasy whose name ends with ".swift" and whose path has no segment equal to
\* "Preview Content".
C6_ExactSet ==
    Returned =>
        /\ Range(swift_files) =
              {<<f[Len(f)], JoinPath(f)>> :
                  f \in {g \in fs_files : /\ Len(g) >= 2
                                          /\ g[1] = SourceDirName
                                          /\ EndsWith(g[Len(g)], SwiftExt)
                                          /\ \A k \in 1..Len(g) : g[k] # ExcludedName}}
        /\ Cardinality(Range(swift_files)) = Len(swift_files)

\* "DuEasy/a.swift", "DuEasy/a/c.swift", "DuEasy/b.swift"
OrderExample ==
    << <<68, 117, 69, 97, 115, 121, 47, 97, 46, 115, 119, 105, 102, 116>>,
       <<68, 117, 69, 97, 115, 121, 47, 97, 47, 99, 46, 115, 119, 105, 102, 116>>,
       <<68, 117, 69, 97, 115, 121, 47, 98, 46, 115, 119, 105, 102, 116>> >>

\* the relative paths of a list of (file, rel_path) pairs
PathsOf(list) == [i \in 1..Len(list) |-> list[i][2]]

\* C7: the list get_swift_files returns ascends strictly by relative path, code
\* point by code point; the per-file entries of the four lists of the written
\* manifest follow that order; and the files a.swift, b.swift and a/c.swift come
\* out as a.swift, a/c.swift, b.swift.
C7_SortedByPath ==
    /\ Returned =>
          /\ \A i, j \in 1..Len(swift_files) :
                i < j => StrLess(swift_files[i][2], swift_files[j][2])
          /\ Range(PathsOf(swift_files)) = Range(OrderExample)
                => PathsOf(swift_files) = OrderExample
    /\ pc = "done" =>
          LET m == disk.text
              fr == PerFileEntries(m, "PBXFileReference")
              bf == PerFileEntries(m, "PBXBuildFile")
              ch == PerFileChildren(m)
              sf == RefsOf(m, sources_phase_id, "files")
          IN  /\ [i \in 1..Len(fr) |-> fr[i].path] = PathsOf(swift_files)
              /\ [i \in 1..Len(bf) |-> bf[i].ref] = [i \in 1..Len(fr) |-> fr[i].id]
              /\ [i \in 1..Len(ch) |-> ch[i].ref] = [i \in 1..Len(fr) |-> fr[i].id]
              /\ [i \in 1..Len(sf) |-> sf[i].ref] = [i \in 1..Len(bf) |-> bf[i].id]

\* C7 witness: the three files of the example were enumerated in another order
\* than the sorted one and the manifest has been written
C7_Witness ==
    /\ pc = "done"
    /\ PathsOf(found) # OrderExample
    /\ PathsOf(swift_files) = OrderExample
    /\ Len(PerFileEntries(disk.text, "PBXFileReference")) = 3

\* C8: the text the second run assembles, and the file it writes, equal the
\* file the first run wrote, whatever the two enumeration orders were.
C8_Deterministic ==
    /\ (run = 2 /\ pc \in {"open", "write", "print", "done", "error"}) => pbxproj = disk0.text
    /\ (run = 2 /\ pc = "done") => disk = disk0

\* C8 witness: the second run has written the manifest after enumerating at
\* least two files in another order than the first run
C8_Witness ==
    /\ run = 2
    /\ pc = "done"
    /\ Len(found) >= 2
    /\ found # found0
    /\ Range(found) = Range(found0)

\* the tree of the end-to-end scenario: Main.swift and Views/Home.swift below
\* DuEasy, and an empty DuEasy/Preview Content
EndToEndTree ==
    /\ fs_files = {<<SourceDirName, N_Main>>, <<SourceDirName, N_Views, N_Home>>}
    /\ fs_dirs = {<<>>, <<SourceDirName>>, <<SourceDirName, N_Views>>,
                  <<SourceDirName, ExcludedName>>}

\* the per-file lists of the written manifest hold exactly two entries each, the
\* file references have the given paths in this order, and the sources phase
\* names exactly the two build files
EndToEnd(path1, path2) ==
    LET m == disk.text
        fr == PerFileEntries(m, "PBXFileReference")
        bf == PerFileEntries(m, "PBXBuildFile")
        sf == RefsOf(m, sources_phase_id, "files")
    IN  /\ Len(bf) = 2 /\ Len(fr) = 2 /\ Len(sf) = 2
        /\ fr[1].path = path1 /\ fr[2].path = path2
        /\ bf[1].ref = fr[1].id /\ bf[2].ref = fr[2].id
        /\ bf[1].id # bf[2].id
        /\ {sf[1].ref, sf[2].ref} = {bf[1].id, bf[2].id}

\* C9 (as claimed): the path fields are "Main.swift" and "Views/Home.swift".
C9_ClaimedPaths ==
    (EndToEndTree /\ pc = "done") =>
        EndToEnd(<<77, 97, 105, 110, 46, 115, 119, 105, 102, 116>>,
                 <<86, 105, 101, 119, 115, 47, 72, 111, 109, 101, 46, 115, 119, 105, 102, 116>>)

\* C9 (amended): the path fields are "DuEasy/Main.swift" and
\* "DuEasy/Views/Home.swift", the paths relative to the base directory.
C9_EndToEnd ==
    (EndToEndTree /\ pc = "done") =>
        EndToEnd(<<68, 117, 69, 97, 115, 121, 47, 77, 97, 105, 110, 46, 115, 119, 105, 102, 116>>,
                 <<68, 117, 69, 97, 115, 121, 47, 86, 105, 101, 119, 115, 47, 72, 111, 109,
                   101, 46, 115, 119, 105, 102, 116>>)

\* C9 witness: the manifest of the scenario has been written, and the file
\* reference and the build file of DuEasy/Main.swift carry the identifiers
\* 9149ECFE20B8F88D1E23E22E and 5F9D7383EA238B84ADCEAB19
C9_Witness ==
    /\ EndToEndTree
    /\ pc = "done"
    /\ printed = 2
    /\ PerFileEntries(disk.text, "PBXFileReference")[1].id =
          <<57, 49, 52, 57, 69, 67, 70, 69, 50, 48, 66, 56, 70, 56, 56, 68, 49, 69, 50, 51,
            69, 50, 50, 69>>
    /\ PerFileEntries(disk.text, "PBXBuildFile")[1].id =
          <<53, 70, 57, 68, 55, 51, 56, 51, 69, 65, 50, 51, 56, 66, 56, 52, 65, 68, 67, 69,
            65, 66, 49, 57>>

\* the lines of a text that define an object
Definitions(m) == LinesAt(m, {i \in 1..Len(m) : m[i].kind \in {"entry", "object"}})

\* C10: no two lines of the assembled text define the same identifier; the 26
\* fixed identifiers are pairwise distinct and 16 characters long; the
\* identifiers derived for the discovered files are 24 characters long; and the
\* 2N keys hashed for N discovered files are pairwise distinct.
C10_UniqueIds ==
    /\ Cardinality(FixedIdSet) = Len(FixedIds)
    /\ \A id \in FixedIdSet : Len(id) = 16
    /\ pc \in {"open", "write", "print", "done"} =>
          LET d == Definitions(pbxproj)
              keys == [i \in 1..Len(swift_files) |-> FileRefKey(swift_files[i][2])]
                      \o [i \in 1..Len(swift_files) |-> BuildFileKey(swift_files[i][2])]
          IN  /\ \A i, j \in 1..Len(d) : d[i].id = d[j].id => i = j
              /\ \A i \in 1..Len(d) : d[i].id \notin FixedIdSet => Len(d[i].id) = 24
              /\ \A i \in 1..Len(file_refs) : Len(file_refs[i][1]) = 24
              /\ \A i \in 1..Len(build_files) : Len(build_files[i][1]) = 24
              /\ \A i, j \in 1..Len(keys) : keys[i] = keys[j] => i = j
              /\ Len(d) = Len(FixedIds) + 2 * Len(swift_files)

\* C10 witness: a text with the entries of three discovered files is assembled
C10_Witness ==
    /\ pc = "open"
    /\ Len(swift_files) = 3
    /\ Len(Definitions(pbxproj)) = 32

\* the keys under which a line refers to another object
ReferenceKeys ==
    {"fileRef", "children", "files", "buildPhases", "productReference",
     "buildConfigurationList", "buildConfigurations", "mainGroup", "productRefGroup",
     "targets", "rootObject"}

\* the positions of the lines of m that name the identifier id under the key
NamedAt(m, key, id) ==
    {i \in 1..Len(m) : m[i].kind = "ref" /\ m[i].key = key /\ m[i].ref = id}

\* the section of the object that line i of m belongs to
OwnerSection(m, i) ==
    LET objs == {j \in 1..i : m[j].kind = "object"}
    IN  IF objs = {} THEN "" ELSE m[CHOOSE j \in objs : \A k \in objs : k <= j].sec

\* every reference of m names an object m defines; every build file is on
\* exactly one files line, of the sources phase if it stands for a source file
\* and of the resources phase otherwise; every file reference is on exactly one
\* children line, of a group or of the variant group
Closed(m) ==
    LET defined == {m[i].id : i \in {j \in 1..Len(m) : m[j].kind \in {"entry", "object"}}}
    IN  /\ \A i \in 1..Len(m) :
              (m[i].key \in ReferenceKeys /\ m[i].kind \in {"entry", "ref", "root"})
                  => m[i].ref \in defined
        /\ \A i \in 1..Len(m) :
              (m[i].kind = "entry" /\ m[i].sec = "PBXBuildFile") =>
                  LET at == NamedAt(m, "files", m[i].id)
                  IN  /\ Cardinality(at) = 1
                      /\ \A j \in at :
                            OwnerOf(m, j) = IF m[i].id \in FixedIdSet
                                            THEN resources_phase_id
                                            ELSE sources_phase_id
        /\ \A i \in 1..Len(m) :
              (m[i].kind = "entry" /\ m[i].sec = "PBXFileReference") =>
                  LET at == NamedAt(m, "children", m[i].id)
                  IN  /\ Cardinality(at) = 1
                      /\ \A j \in at : OwnerSection(m, j) \in {"PBXGroup", "PBXVariantGroup"}

\* C11: the text main() assembles, and the file it writes, is referentially
\* closed for every set of discovered files: each identifier named under
\* fileRef, children, files, buildPhases, productReference,
\* buildConfigurationList, buildConfigurations, mainGroup, productRefGroup,
\* targets or rootObject is defined in the text; each build file is listed in
\* exactly one build phase (source files in the sources phase, the three
\* resource entries in the resources phase); each file reference is a child of
\* exactly one group.
C11_ReferentiallyClosed ==
    /\ pc \in {"open", "write", "print", "done"} => Closed(pbxproj)
    /\ pc = "done" => Closed(disk.text)

\* C11 witness: the manifest of three discovered files has been written; it
\* names 40 references (6 fileRef, 14 children, 6 files and 14 others), three of
\* them the per-file build files and three the resource entries
C11_Witness ==
    /\ pc = "done"
    /\ Len(swift_files) = 3
    /\ Cardinality({i \in 1..Len(disk.text) :
                        /\ disk.text[i].key \in ReferenceKeys
                        /\ disk.text[i].kind \in {"entry", "ref", "root"}}) = 40
    /\ Len(PerFileEntries(disk.text, "PBXBuildFile")) = 3
    /\ Len(RefsOf(disk.text, resources_phase_id, "files")) = 3

====
